---- MODULE Spec2Model ----
(***************************************************************************)
(* User/Profile web backend (src/main.py): the relational store with its   *)
(* two tables, the request handlers that read and commit against it, the   *)
(* session gate, and the file upload.  A handler that reads and later      *)
(* commits is one action per database round trip, so that requests served  *)
(* by different workers interleave between their read and their commits.   *)
(***************************************************************************)
EXTENDS Integers, Sequences, FiniteSets, TLC

VARIABLES
    users,      \* table user:    id -> [username, password, is_admin]
    profiles,   \* table profile: id -> [full_name, bio, user_id]
    pc,         \* per worker: where its request stands
    req,        \* per worker: the request's locals (payload, loaded rows)
    session,    \* per client: the user id its session cookie carries, 0 if none
    lastEvent,  \* per client: its most recent session event
    files,      \* upload directory: stored filename -> content
    started,    \* number of requests received so far
    ev          \* the step just taken and, when it answered, the response

vars == <<users, profiles, pc, req, session, lastEvent, files, started, ev>>

-----------------------------------------------------------------------------
(* Bounds of the model *)

NProcs == 2          \* workers serving requests at the same time
NClients == 2        \* browsers holding a session cookie
MaxRequests == 3     \* requests received in one behaviour
MaxLen == 5          \* characters of an uploaded file's name

Procs == 1..NProcs
Clients == 1..NClients

(* Python None / SQL NULL, and a key that the JSON payload does not carry *)
None == "None"
Absent == "<absent>"

Max(S) == CHOOSE m \in S : \A x \in S : x <= m

-----------------------------------------------------------------------------
(* Persistence layer *)

\* SQLite rowid of an INTEGER PRIMARY KEY column: largest id in use plus one
NextRowId(t) == IF DOMAIN t = {} THEN 1 ELSE Max(DOMAIN t) + 1

Insert(t, id, row) == [i \in DOMAIN t \cup {id} |-> IF i = id THEN row ELSE t[i]]

Remove(t, S) == [i \in DOMAIN t \ S |-> t[i]]

EmptyTable == [i \in {} |-> None]

\* username = db.Column(..., unique=True, ...)
UniqueBroken(us, id, name) == TRUE
UniqueOk(us, id, name) == \A i \in DOMAIN us \ {id} : us[i].username # name

\* nullable=False
NotNull(v) == v # None

\* User.query.filter_by(username=username).first()
FindNobody(us, name) == {}
FindByUsername(us, name) == {i \in DOMAIN us : us[i].username = name}

\* user.profile: the Profile rows whose user_id is the user's id
ProfilesOf(ps, id) == {k \in DOMAIN ps : ps[k].user_id = id}

\* request.json.get(key) and request.json.get(key, default)
Get(data, k) == IF data[k] = Absent THEN None ELSE data[k]
GetOr(data, k, d) == IF data[k] = Absent THEN d ELSE data[k]

Payloads(U, P, F, B) == [username : U, password : P, full_name : F, bio : B]

NoData == [username |-> Absent, password |-> Absent, full_name |-> Absent, bio |-> Absent]
NoUser == [username |-> None, password |-> None, is_admin |-> FALSE]
NoProf == [full_name |-> None, bio |-> None, user_id |-> 0]
NoReq == [op |-> "none", id |-> 0, data |-> NoData, user |-> NoUser, pid |-> 0, prof |-> NoProf]

Event(op, step, who, id, pid, data, status, exc) ==
    [op |-> op, step |-> step, who |-> who, id |-> id, pid |-> pid, data |-> data,
     status |-> status, exc |-> exc, body |-> None,
     hasFile |-> FALSE, filename |-> <<>>, stored |-> <<>>]

\* the event of a page or redirect answered to client c
Page(op, step, c, id, data, status, body) ==
    [Event(op, step, c, id, 0, data, status, None) EXCEPT !.body = body]

NoEvent == Event("none", "none", 0, 0, 0, NoData, 0, None)

\* the worker answers and is free again
Answer(p, e) ==
    /\ ev' = e
    /\ pc' = [pc EXCEPT ![p] = "idle"]
    /\ req' = [req EXCEPT ![p] = NoReq]

\* the worker goes on to its next database round trip
Goto(p, loc, r, e) ==
    /\ ev' = e
    /\ pc' = [pc EXCEPT ![p] = loc]
    /\ req' = [req EXCEPT ![p] = r]

Truthy(v) == v # None /\ v # Absent /\ v # ""

\* a worker takes a request off the wire
Receive(p) ==
    /\ pc[p] = "idle"
    /\ started' = started + 1

\* identifiers a request may name: those stored and one that is not
Ids == DOMAIN users \cup {NextRowId(users)}

-----------------------------------------------------------------------------
(* POST /users *)

\* the username check, before anything is written
CreateUser(p, data) ==
    /\ Receive(p)
    /\ IF FindByUsername(users, Get(data, "username")) # {}
       THEN Answer(p, Event("create", "check", 0, 0, 0, data, 400, None))
       ELSE Goto(p, "create_commit", [NoReq EXCEPT !.op = "create", !.data = data],
                 Event("create", "check", 0, 0, 0, data, 0, None))
    /\ UNCHANGED <<users, profiles, session, lastEvent, files>>

\* db.session.add(user); db.session.commit()
CreateCommitUser(p) ==
    /\ pc[p] = "create_commit"
    /\ LET data == req[p].data
           name == Get(data, "username")
           pw == Get(data, "password")
           id == NextRowId(users)
       IN IF NotNull(name) /\ NotNull(pw) /\ UniqueOk(users, 0, name)
          THEN /\ users' = Insert(users, id, [username |-> name, password |-> pw, is_admin |-> FALSE])
               /\ IF Truthy(Get(data, "full_name"))
                  THEN Goto(p, "create_refresh", [req[p] EXCEPT !.id = id],
                            Event("create", "commit_user", 0, id, 0, data, 0, None))
                  ELSE Answer(p, Event("create", "commit_user", 0, id, 0, data, 201, None))
          ELSE /\ users' = users
               /\ Answer(p, Event("create", "commit_user", 0, 0, 0, data, 500, "IntegrityError"))
    /\ UNCHANGED <<profiles, session, lastEvent, files, started>>

\* user.id, read after the commit expired the instance: the row is loaded again
CreateRefresh(p) ==
    /\ pc[p] = "create_refresh"
    /\ IF req[p].id \in DOMAIN users
       THEN Goto(p, "create_profile", req[p],
                 Event("create", "refresh", 0, req[p].id, 0, req[p].data, 0, None))
       ELSE Answer(p, Event("create", "refresh", 0, req[p].id, 0, req[p].data, 500, "ObjectDeletedError"))
    /\ UNCHANGED <<users, profiles, session, lastEvent, files, started>>

\* db.session.add(profile); db.session.commit()
CreateCommitProfile(p) ==
    /\ pc[p] = "create_profile"
    /\ LET data == req[p].data
           k == NextRowId(profiles)
       IN /\ profiles' = Insert(profiles, k,
                [full_name |-> Get(data, "full_name"), bio |-> Get(data, "bio"), user_id |-> req[p].id])
          /\ Answer(p, Event("create", "commit_profile", 0, req[p].id, k, data, 201, None))
    /\ UNCHANGED <<users, session, lastEvent, files, started>>

-----------------------------------------------------------------------------
(* PUT /users/<id> *)

\* user.profile with uselist=False: the row the lazy load returns, 0 when there is
\* none; when several rows carry the user's id the query's order decides
Loadable(ps, id) == IF ProfilesOf(ps, id) = {} THEN {0} ELSE ProfilesOf(ps, id)

\* User.query.get(user_id) and the assignments to the loaded User
UpdateUser(p, id, data) ==
    /\ Receive(p)
    /\ IF id \notin DOMAIN users
       THEN Answer(p, Event("update", "get", 0, id, 0, data, 404, None))
       ELSE Goto(p, "update_load",
                 [NoReq EXCEPT !.op = "update", !.id = id, !.data = data, !.user = users[id]],
                 Event("update", "get", 0, id, 0, data, 0, None))
    /\ UNCHANGED <<users, profiles, session, lastEvent, files>>

\* user.profile, loaded on first use, and the assignments to it or the new Profile
UpdateLoadProfile(p) ==
    /\ pc[p] = "update_load"
    /\ \E k \in Loadable(profiles, req[p].id) :
         Goto(p, "update_commit",
              [req[p] EXCEPT !.pid = k, !.prof = IF k = 0 THEN NoProf ELSE profiles[k]],
              Event("update", "load", 0, req[p].id, k, req[p].data, 0, None))
    /\ UNCHANGED <<users, profiles, session, lastEvent, files, started>>

\* what the assignments of update_user leave to be written: a column is written
\* only if its new value differs from the value that was loaded
NewUsername(r) == GetOr(r.data, "username", r.user.username)
NewPassword(r) == GetOr(r.data, "password", r.user.password)
NewFullName(r) == GetOr(r.data, "full_name", r.prof.full_name)
NewBio(r) == GetOr(r.data, "bio", r.prof.bio)
UserDirty(r) == NewUsername(r) # r.user.username \/ NewPassword(r) # r.user.password
ProfileDirty(r) == r.pid # 0 /\ (NewFullName(r) # r.prof.full_name \/ NewBio(r) # r.prof.bio)
ProfileAdded(r) == r.pid = 0 /\ r.data.full_name # Absent

\* the exception the flush of update_user's commit raises against the store, if any
UpdateError(us, ps, r) ==
    IF UserDirty(r) /\ r.id \notin DOMAIN us THEN "StaleDataError"
    ELSE IF UserDirty(r) /\ ~(NotNull(NewUsername(r)) /\ NotNull(NewPassword(r))) THEN "IntegrityError"
    ELSE IF UserDirty(r) /\ NewUsername(r) # r.user.username /\ ~UniqueOk(us, r.id, NewUsername(r))
         THEN "IntegrityError"
    ELSE IF ProfileDirty(r) /\ r.pid \notin DOMAIN ps THEN "StaleDataError"
    ELSE IF ProfileDirty(r) /\ ~NotNull(NewFullName(r)) THEN "IntegrityError"
    ELSE IF ProfileAdded(r) /\ ~NotNull(r.data.full_name) THEN "IntegrityError"
    ELSE None

\* UPDATE user SET <changed columns> WHERE id = ?
UpdatedUsersNoDefault(us, r) ==
    [us EXCEPT ![r.id] =
        [username |-> Get(r.data, "username"), password |-> Get(r.data, "password"),
         is_admin |-> @.is_admin]]
UpdatedUsers(us, r) ==
    IF ~UserDirty(r) THEN us
    ELSE [us EXCEPT ![r.id] =
            [username |-> IF NewUsername(r) # r.user.username THEN NewUsername(r) ELSE @.username,
             password |-> IF NewPassword(r) # r.user.password THEN NewPassword(r) ELSE @.password,
             is_admin |-> @.is_admin]]

\* UPDATE profile SET <changed columns> WHERE id = ?, or INSERT INTO profile
UpdatedProfiles(ps, r) ==
    IF ProfileDirty(r)
    THEN [ps EXCEPT ![r.pid] =
            [full_name |-> IF NewFullName(r) # r.prof.full_name THEN NewFullName(r) ELSE @.full_name,
             bio |-> IF NewBio(r) # r.prof.bio THEN NewBio(r) ELSE @.bio,
             user_id |-> @.user_id]]
    ELSE IF ProfileAdded(r)
    THEN Insert(ps, NextRowId(ps),
                [full_name |-> r.data.full_name, bio |-> Get(r.data, "bio"), user_id |-> r.id])
    ELSE ps

\* db.session.commit()
UpdateCommit(p) ==
    /\ pc[p] = "update_commit"
    /\ LET r == req[p]
           exc == UpdateError(users, profiles, r)
       IN IF exc = None
          THEN /\ users' = UpdatedUsers(users, r)
               /\ profiles' = UpdatedProfiles(profiles, r)
               /\ Goto(p, "update_respond", r, Event("update", "commit", 0, r.id, r.pid, r.data, 0, None))
          ELSE /\ UNCHANGED <<users, profiles>>
               /\ Answer(p, Event("update", "commit", 0, r.id, r.pid, r.data, 500, exc))
    /\ UNCHANGED <<session, lastEvent, files, started>>

\* user.username in the response, read after the commit expired the instance
UpdateRespond(p) ==
    /\ pc[p] = "update_respond"
    /\ LET r == req[p]
       IN IF r.id \in DOMAIN users
          THEN Answer(p, Event("update", "respond", 0, r.id, r.pid, r.data, 200, None))
          ELSE Answer(p, Event("update", "respond", 0, r.id, r.pid, r.data, 500, "ObjectDeletedError"))
    /\ UNCHANGED <<users, profiles, session, lastEvent, files, started>>

-----------------------------------------------------------------------------
(* DELETE /users/<id> *)

\* User.query.get(user_id)
DeleteUser(p, id) ==
    /\ Receive(p)
    /\ IF id \notin DOMAIN users
       THEN Answer(p, Event("delete", "get", 0, id, 0, NoData, 404, None))
       ELSE Goto(p, "delete_load", [NoReq EXCEPT !.op = "delete", !.id = id, !.user = users[id]],
                 Event("delete", "get", 0, id, 0, NoData, 0, None))
    /\ UNCHANGED <<users, profiles, session, lastEvent, files>>

\* user.profile, loaded on first use; db.session.delete(user.profile); db.session.delete(user)
DeleteLoadProfile(p) ==
    /\ pc[p] = "delete_load"
    /\ \E k \in Loadable(profiles, req[p].id) :
         Goto(p, "delete_commit",
              [req[p] EXCEPT !.pid = k, !.prof = IF k = 0 THEN NoProf ELSE profiles[k]],
              Event("delete", "load", 0, req[p].id, k, NoData, 0, None))
    /\ UNCHANGED <<users, profiles, session, lastEvent, files, started>>

\* DELETE FROM profile WHERE id = ?; DELETE FROM user WHERE id = ?
DeletedProfiles(ps, r) == Remove(ps, {r.pid})
DeletedUsers(us, r) == Remove(us, {r.id})

\* db.session.commit(): a DELETE that matches no row only warns
DeleteCommit(p) ==
    /\ pc[p] = "delete_commit"
    /\ LET r == req[p]
       IN /\ profiles' = DeletedProfiles(profiles, r)
          /\ users' = DeletedUsers(users, r)
          /\ Answer(p, Event("delete", "commit", 0, r.id, r.pid, NoData, 200, None))
    /\ UNCHANGED <<session, lastEvent, files, started>>

-----------------------------------------------------------------------------
(* GET /profiles/<id> and the body of GET /users/<id>.  These handlers only read; *)
(* their two loads are taken as one step.                                        *)

NotFound == [status |-> 404, body |-> "not found"]

\* get_profile, with k the row that user.profile loads (0 when there is none)
GetProfileResponse(us, ps, id, k) ==
    IF id \notin DOMAIN us \/ k = 0
    THEN NotFound
    ELSE [status |-> 200, body |-> [full_name |-> ps[k].full_name, bio |-> ps[k].bio]]

\* get_user's handler, with k the row that user.profile loads (0 when there is none)
GetUserResponse(us, ps, id, k) ==
    IF id \notin DOMAIN us
    THEN NotFound
    ELSE [status |-> 200,
          body |-> [id |-> id, username |-> us[id].username, is_admin |-> us[id].is_admin,
                    profile |-> IF k = 0 THEN None
                                ELSE [full_name |-> ps[k].full_name, bio |-> ps[k].bio]]]

GetProfile(p, id) ==
    /\ Receive(p)
    /\ \E k \in Loadable(profiles, id) :
         ev' = Event("get_profile", "read", 0, id, k, NoData,
                     GetProfileResponse(users, profiles, id, k).status, None)
    /\ UNCHANGED <<users, profiles, pc, req, session, lastEvent, files>>

-----------------------------------------------------------------------------
(* Sessions: load_user, login_required, /login, /logout, /, GET /users/<id> *)

\* User.query.filter_by(username=username, password=password).first()
FindByCredentials(us, name, pw) ==
    {i \in DOMAIN us : us[i].username = name /\ us[i].password = pw}

\* login_required: the cookie names a user and load_user finds its row
GateOpen(us, sid) == TRUE
Authenticated(us, sid) == sid # 0 /\ sid \in DOMAIN us

Credentials(name, pw) == [NoData EXCEPT !.username = name, !.password = pw]

\* what POST /login answers given the rows the query returned
LoginLeaky(us, found, name) ==
    IF found # {} THEN [status |-> 302, body |-> "redirect:/"]
    ELSE IF \E i \in DOMAIN us : us[i].username = name
    THEN [status |-> 200, body |-> "login.html:Wrong password"]
    ELSE [status |-> 200, body |-> "login.html:Unknown user"]
LoginResponse(us, found, name) ==
    IF found # {} THEN [status |-> 302, body |-> "redirect:/"]
    ELSE [status |-> 200, body |-> "login.html:Invalid credentials"]

\* POST /login
Login(c, name, pw) ==
    /\ started' = started + 1
    /\ LET found == FindByCredentials(users, name, pw)
           r == LoginResponse(users, found, name)
       IN IF found # {}
          THEN \E i \in found :
                 /\ session' = [session EXCEPT ![c] = i]
                 /\ lastEvent' = [lastEvent EXCEPT ![c] = "login"]
                 /\ ev' = Page("login", "handler", c, i, Credentials(name, pw), r.status, r.body)
          ELSE /\ UNCHANGED <<session, lastEvent>>
               /\ ev' = Page("login", "handler", c, 0, Credentials(name, pw), r.status, r.body)
    /\ UNCHANGED <<users, profiles, pc, req, files>>

\* GET /login
LoginForm(c) ==
    /\ started' = started + 1
    /\ ev' = Page("login_form", "handler", c, 0, NoData, 200, "login.html")
    /\ UNCHANGED <<users, profiles, pc, req, session, lastEvent, files>>

\* login_manager.login_view = 'login': what the gate answers instead of the handler
Refused(op, c, id) == Page(op, "refused", c, id, NoData, 302, "redirect:/login")

\* GET /logout
Logout(c) ==
    /\ started' = started + 1
    /\ IF Authenticated(users, session[c])
       THEN /\ session' = [session EXCEPT ![c] = 0]
            /\ lastEvent' = [lastEvent EXCEPT ![c] = "logout"]
            /\ ev' = Page("logout", "handler", c, 0, NoData, 302, "redirect:/login")
       ELSE /\ UNCHANGED <<session, lastEvent>>
            /\ ev' = Refused("logout", c, 0)
    /\ UNCHANGED <<users, profiles, pc, req, files>>

\* GET /
Chat(c) ==
    /\ started' = started + 1
    /\ ev' = IF Authenticated(users, session[c])
             THEN Page("chat", "handler", c, 0, NoData, 200, "chat.html")
             ELSE Refused("chat", c, 0)
    /\ UNCHANGED <<users, profiles, pc, req, session, lastEvent, files>>

\* GET /users/<id>
GetUser(c, id) ==
    /\ started' = started + 1
    /\ IF Authenticated(users, session[c])
       THEN \E k \in Loadable(profiles, id) :
              LET r == GetUserResponse(users, profiles, id, k)
              IN ev' = Page("get_user", "handler", c, id, NoData, r.status,
                            IF r.status = 200 THEN "user_data" ELSE "error:User not found")
       ELSE ev' = Refused("get_user", c, id)
    /\ UNCHANGED <<users, profiles, pc, req, session, lastEvent, files>>

-----------------------------------------------------------------------------
(* POST /upload_file.  A filename is a sequence of one-character strings. *)

ALLOWED_EXTENSIONS ==
    {<<"t", "x", "t">>, <<"p", "d", "f">>, <<"p", "n", "g">>, <<"j", "p", "g">>,
     <<"j", "p", "e", "g">>, <<"g", "i", "f">>}

\* str.lower() on the characters the model draws
LowerChar(ch) == IF ch = "T" THEN "t" ELSE IF ch = "X" THEN "x" ELSE ch
Lower(s) == [i \in 1..Len(s) |-> LowerChar(s[i])]

Dots(s) == {i \in 1..Len(s) : s[i] = "."}

\* filename.rsplit('.', 1)[1]
AfterLastDot(s) == SubSeq(s, Max(Dots(s)) + 1, Len(s))

\* allowed_file(filename, allowed_extensions)
allowed_file_cased(filename, allowed_extensions) ==
    Dots(filename) # {} /\ AfterLastDot(filename) \in allowed_extensions
allowed_file(filename, allowed_extensions) ==
    Dots(filename) # {} /\ Lower(AfterLastDot(filename)) \in allowed_extensions

\* werkzeug's secure_filename on ASCII names: path separators become whitespace,
\* the words are joined by "_", characters outside [A-Za-z0-9_.-] are dropped, and
\* leading and trailing "." and "_" are stripped
SepToSpace(s) == [i \in 1..Len(s) |-> IF s[i] = "/" THEN " " ELSE s[i]]

RECURSIVE JoinWords(_, _, _)
JoinWords(s, acc, gap) ==
    IF s = <<>> THEN acc
    ELSE IF Head(s) = " " THEN JoinWords(Tail(s), acc, TRUE)
    ELSE JoinWords(Tail(s), IF gap /\ acc # <<>> THEN acc \o <<"_", Head(s)>> ELSE Append(acc, Head(s)), FALSE)

SafeChars == {"t", "x", "T", "X", "_", ".", "-"}
AsciiStrip(s) == SelectSeq(s, LAMBDA ch : ch \in SafeChars)

RECURSIVE StripLeft(_)
StripLeft(s) == IF s # <<>> /\ Head(s) \in {".", "_"} THEN StripLeft(Tail(s)) ELSE s
RECURSIVE StripRight(_)
StripRight(s) ==
    IF s # <<>> /\ s[Len(s)] \in {".", "_"} THEN StripRight(SubSeq(s, 1, Len(s) - 1)) ELSE s

secure_filename(filename) ==
    StripRight(StripLeft(AsciiStrip(JoinWords(SepToSpace(filename), <<>>, FALSE))))

Store(dir, name, content) == [n \in DOMAIN dir \cup {name} |-> IF n = name THEN content ELSE dir[n]]

UploadEvent(hasFile, filename, stored, status, body) ==
    [Event("upload", "handler", 0, 0, 0, NoData, status, None)
        EXCEPT !.body = body, !.hasFile = hasFile, !.filename = filename, !.stored = stored]

\* file_upload; hasFile: 'file' in request.files; a FileStorage is true when it has a filename
file_upload(hasFile, filename) ==
    /\ started' = started + 1
    /\ IF ~hasFile
       THEN /\ ev' = UploadEvent(hasFile, <<>>, <<>>, 400, "error:No file part in the request")
            /\ files' = files
       ELSE IF filename # <<>> /\ allowed_file(filename, ALLOWED_EXTENSIONS)
       THEN LET stored == secure_filename(filename)
            IN IF stored = <<>>
               THEN \* os.path.join(folder, '') is the folder itself: file.save raises
                    /\ ev' = [UploadEvent(hasFile, filename, stored, 500, None)
                                 EXCEPT !.exc = "IsADirectoryError"]
                    /\ files' = files
               ELSE /\ files' = Store(files, stored, "new")
                    /\ ev' = UploadEvent(hasFile, filename, stored, 201,
                                         "message:File uploaded successfully")
       ELSE /\ ev' = UploadEvent(hasFile, filename, <<>>, 400, "error:Invalid file type")
            /\ files' = files
    /\ UNCHANGED <<users, profiles, pc, req, session, lastEvent>>

-----------------------------------------------------------------------------
(* Specifications *)

EmptyDir == [n \in {} |-> "old"]

Init ==
    /\ users = EmptyTable
    /\ profiles = EmptyTable
    /\ pc = [p \in Procs |-> "idle"]
    /\ req = [p \in Procs |-> NoReq]
    /\ session = [c \in Clients |-> 0]
    /\ lastEvent = [c \in Clients |-> "none"]
    /\ files = EmptyDir
    /\ started = 0
    /\ ev = NoEvent

\* The writing requests of any worker interleave between their database round trips.
Next ==
    \E p \in Procs :
        \/ \E data \in Payloads({"alice", "bob"}, {"pw1"}, {"Bob R", Absent}, {Absent}) :
              started < MaxRequests /\ CreateUser(p, data)
        \/ CreateCommitUser(p)
        \/ CreateRefresh(p)
        \/ CreateCommitProfile(p)
        \/ \E id \in Ids, data \in Payloads({"bob", Absent}, {Absent}, {"Bob R", Absent}, {Absent}) :
              started < MaxRequests /\ UpdateUser(p, id, data)
        \/ UpdateLoadProfile(p)
        \/ UpdateCommit(p)
        \/ UpdateRespond(p)
        \/ \E id \in Ids : started < MaxRequests /\ DeleteUser(p, id)
        \/ DeleteLoadProfile(p)
        \/ DeleteCommit(p)

Spec == Init /\ [][Next]_vars

\* The same without delete user.
NextCreateUpdate ==
    \E p \in Procs :
        \/ \E data \in Payloads({"alice", "bob"}, {"pw1"}, {"Bob R", Absent}, {Absent}) :
              started < MaxRequests /\ CreateUser(p, data)
        \/ CreateCommitUser(p)
        \/ CreateRefresh(p)
        \/ CreateCommitProfile(p)
        \/ \E id \in Ids, data \in Payloads({"bob", Absent}, {Absent}, {"Bob R", Absent}, {Absent}) :
              started < MaxRequests /\ UpdateUser(p, id, data)
        \/ UpdateLoadProfile(p)
        \/ UpdateCommit(p)
        \/ UpdateRespond(p)

SpecCreateUpdate == Init /\ [][NextCreateUpdate]_vars

\* One worker, one request at a time, every combination of payload fields.
NextSeq ==
    \/ \E data \in Payloads({"alice", "bob", Absent}, {"pw1", Absent}, {"Bob R", Absent}, {"hi", Absent}) :
          started < MaxRequests /\ CreateUser(1, data)
    \/ CreateCommitUser(1)
    \/ CreateRefresh(1)
    \/ CreateCommitProfile(1)
    \/ \E id \in Ids, data \in Payloads({"alice", "bob", Absent}, {"pw2", Absent},
                                         {"Ann", None, Absent}, {"there", None, Absent}) :
          started < MaxRequests /\ UpdateUser(1, id, data)
    \/ UpdateLoadProfile(1)
    \/ UpdateCommit(1)
    \/ UpdateRespond(1)
    \/ \E id \in Ids : started < MaxRequests /\ DeleteUser(1, id)
    \/ DeleteLoadProfile(1)
    \/ DeleteCommit(1)
    \/ \E id \in Ids : started < MaxRequests /\ GetProfile(1, id)

SpecSeq == Init /\ [][NextSeq]_vars

\* Clients logging in and out and asking for gated pages while users come and go.
NextAuth ==
    \/ \E c \in Clients, name \in {"alice", "bob"}, pw \in {"pw1", "pw2"} :
          started < MaxRequests + 1 /\ Login(c, name, pw)
    \/ \E c \in Clients : started < MaxRequests + 1 /\ LoginForm(c)
    \/ \E c \in Clients : started < MaxRequests + 1 /\ Logout(c)
    \/ \E c \in Clients : started < MaxRequests + 1 /\ Chat(c)
    \/ \E c \in Clients, id \in Ids : started < MaxRequests + 1 /\ GetUser(c, id)
    \/ \E data \in Payloads({"alice", "bob"}, {"pw1", "pw2"}, {Absent}, {Absent}) :
          started < MaxRequests + 1 /\ CreateUser(1, data)
    \/ CreateCommitUser(1)
    \/ \E id \in Ids : started < MaxRequests + 1 /\ DeleteUser(1, id)
    \/ DeleteLoadProfile(1)
    \/ DeleteCommit(1)

SpecAuth == Init /\ [][NextAuth]_vars

\* One upload into a directory that may hold files of earlier uploads.
Alphabet == {"t", "x", "T", ".", "/"}
Filenames == UNION {[1..n -> Alphabet] : n \in 0..MaxLen}
PriorDirs == {EmptyDir, [n \in {<<"t", "x", "t">>, <<"t", ".", "t", "x", "t">>} |-> "old"]}

InitUpload ==
    /\ users = EmptyTable
    /\ profiles = EmptyTable
    /\ pc = [p \in Procs |-> "idle"]
    /\ req = [p \in Procs |-> NoReq]
    /\ session = [c \in Clients |-> 0]
    /\ lastEvent = [c \in Clients |-> "none"]
    /\ files \in PriorDirs
    /\ started = 0
    /\ ev = NoEvent

NextUpload ==
    /\ started = 0
    /\ \E hasFile \in BOOLEAN, filename \in Filenames : file_upload(hasFile, filename)

SpecUpload == InitUpload /\ [][NextUpload]_vars

-----------------------------------------------------------------------------
(* Properties *)

Received == started' = started + 1
Present(v) == v # Absent
HeldByOther(us, id, name) == \E i \in DOMAIN us : i # id /\ us[i].username = name

\* C1: in every reachable state, whatever the interleaving of create, update and
\* delete requests, no two stored User rows have the same username.
UsernamesUnique ==
    \A i \in DOMAIN users : \A j \in DOMAIN users : i # j => users[i].username # users[j].username

\* a create passed its username check and the store then rejected its commit
UsernamesUniqueWitness ==
    /\ ev.op = "create" /\ ev.step = "commit_user" /\ ev.exc = "IntegrityError"
    /\ \E i \in DOMAIN users : users[i].username = ev.data.username

\* C2: a create user whose username a stored User already has is answered 400,
\* and it leaves every User and Profile row as it was, whatever else it carries.
CreateTakenRejected ==
    [][(Received /\ ev'.op = "create" /\ \E i \in DOMAIN users : users[i].username = ev'.data.username)
        => (ev'.status = 400 /\ users' = users /\ profiles' = profiles)]_vars

\* a create with a stored username, another password and a full name was answered 400
CreateTakenRejectedWitness ==
    /\ ev.op = "create" /\ ev.status = 400
    /\ Present(ev.data.full_name) /\ Present(ev.data.bio)
    /\ \E i \in DOMAIN users :
         users[i].username = ev.data.username /\ users[i].password # ev.data.password

\* C3: every request whose write would break username uniqueness (an update to a
\* username another User holds, a create whose commit collides) is answered with
\* a 400-style error response.
ConflictAnswered400 ==
    (/\ ev.op \in {"create", "update"} /\ ev.step \in {"commit_user", "commit"}
     /\ Present(ev.data.username)
     /\ HeldByOther(users, ev.id, ev.data.username))
    => ev.status = 400

\* C4: in every reachable state every stored Profile's user_id is the id of a
\* stored User.
ProfilesReferenceUsers == \A k \in DOMAIN profiles : profiles[k].user_id \in DOMAIN users

\* C5: in every state reachable by create and update requests, each stored User
\* has at most one Profile row.
AtMostOneProfile == \A i \in DOMAIN users : Cardinality(ProfilesOf(profiles, i)) <= 1

\* C6: once delete user has committed for a User that had a Profile, the User is
\* gone, get user's handler and get profile answer 404 for its id, and no Profile
\* row with that user_id remains; a delete of an unknown id answers 404.
DeleteRemovesBoth ==
    /\ (ev.op = "delete" /\ ev.step = "commit" /\ ev.pid # 0)
       => /\ ev.status = 200
          /\ ev.id \notin DOMAIN users
          /\ ProfilesOf(profiles, ev.id) = {}
          /\ \A k \in Loadable(profiles, ev.id) :
               /\ GetUserResponse(users, profiles, ev.id, k).status = 404
               /\ GetProfileResponse(users, profiles, ev.id, k).status = 404
    /\ (ev.op = "delete" /\ ev.step = "get" /\ ev.id \notin DOMAIN users) => ev.status = 404

\* C7: the commit of a successful update user leaves every other User and Profile
\* row as it was, never changes is_admin or a row's owner, and leaves each of
\* username, password, full_name and bio untouched when the payload lacks it.
UpdateChangesOnlyPresent ==
    [][(ev'.op = "update" /\ ev'.step = "commit" /\ ev'.exc = None)
        => LET id == ev'.id
               k == ev'.pid
               data == ev'.data
               added == DOMAIN profiles' \ DOMAIN profiles
           IN /\ DOMAIN users' = DOMAIN users
              /\ \A i \in DOMAIN users : i # id => users'[i] = users[i]
              /\ id \in DOMAIN users =>
                   /\ users'[id].is_admin = users[id].is_admin
                   /\ ~Present(data.username) => users'[id].username = users[id].username
                   /\ ~Present(data.password) => users'[id].password = users[id].password
              /\ DOMAIN profiles \subseteq DOMAIN profiles'
              /\ \A j \in DOMAIN profiles : j # k => profiles'[j] = profiles[j]
              /\ k \in DOMAIN profiles =>
                   /\ profiles'[k].user_id = profiles[k].user_id
                   /\ ~Present(data.full_name) => profiles'[k].full_name = profiles[k].full_name
                   /\ ~Present(data.bio) => profiles'[k].bio = profiles[k].bio
              /\ added # {} => k = 0 /\ Present(data.full_name)
              /\ \A j \in added :
                   /\ profiles'[j].user_id = id
                   /\ ~Present(data.bio) => profiles'[j].bio = None]_vars

\* an update carrying only password and bio was committed for a User with a Profile
UpdateChangesOnlyPresentWitness ==
    /\ ev.op = "update" /\ ev.step = "commit" /\ ev.exc = None
    /\ ~Present(ev.data.username) /\ Present(ev.data.password)
    /\ ~Present(ev.data.full_name) /\ Present(ev.data.bio)
    /\ ev.id \in DOMAIN users /\ users[ev.id].password = ev.data.password
    /\ ev.pid \in DOMAIN profiles /\ profiles[ev.pid].bio = ev.data.bio

\* C8: a session-gated handler (/, GET /users/<id>, /logout) runs only for a
\* client whose most recent session event is a successful login; any other
\* request for one is answered with the redirect to the login view.
GatedOnlyWithSession ==
    [][(Received /\ ev'.op \in {"chat", "get_user", "logout"})
        => \/ ev'.step = "handler" /\ lastEvent[ev'.who] = "login"
           \/ ev'.step = "refused" /\ ev'.status = 302 /\ ev'.body = "redirect:/login"
              /\ session' = session]_vars

\* a client that logged in and out again asked for a user and was sent to the login view
GatedOnlyWithSessionWitness ==
    /\ ev.op = "get_user" /\ ev.step = "refused"
    /\ lastEvent[ev.who] = "logout"
    /\ ev.id \in DOMAIN users

\* C9: POST /login binds the client's session to a User exactly when a stored User
\* has the submitted username and password; otherwise the session stays as it was
\* and the answer is the one the same request gets when no User has that username.
WithoutUsername(us, name) == [i \in {j \in DOMAIN us : us[j].username # name} |-> us[i]]

LoginExactAndSilent ==
    [][(Received /\ ev'.op = "login")
        => LET c == ev'.who
               name == ev'.data.username
               pw == ev'.data.password
               match == {i \in DOMAIN users : users[i].username = name /\ users[i].password = pw}
               gone == WithoutUsername(users, name)
           IN /\ match # {} => /\ session'[c] \in match
                               /\ ev'.status = 302 /\ ev'.body = "redirect:/"
              /\ match = {} => /\ session' = session
                               /\ ev'.status # 302
                               /\ [status |-> ev'.status, body |-> ev'.body]
                                    = LoginResponse(gone, FindByCredentials(gone, name, pw), name)
              /\ \A d \in Clients \ {c} : session'[d] = session[d]]_vars

\* a login with a stored username and another password was turned down
LoginExactAndSilentWitness ==
    /\ ev.op = "login" /\ ev.status = 200
    /\ \E i \in DOMAIN users :
         users[i].username = ev.data.username /\ users[i].password # ev.data.password

\* C10: an upload is answered 400 'no file part' without a file payload, 400
\* 'invalid file type' when the filename has no '.' or its last extension,
\* lower-cased, is not allowed, and otherwise 201 with the file stored under the
\* sanitized name, replacing a file of that name; a 400 writes nothing.
Extension(f) == [i \in 1..(Len(f) - Max(Dots(f))) |-> LowerChar(f[Max(Dots(f)) + i])]

UploadOutcomes ==
    [][(Received /\ ev'.op = "upload")
        => LET f == ev'.filename
               name == ev'.stored
           IN IF ~ev'.hasFile
              THEN ev'.status = 400 /\ ev'.body = "error:No file part in the request" /\ files' = files
              ELSE IF Dots(f) = {} \/ Extension(f) \notin ALLOWED_EXTENSIONS
              THEN ev'.status = 400 /\ ev'.body = "error:Invalid file type" /\ files' = files
              ELSE /\ ev'.status = 201
                   /\ name = secure_filename(f)
                   /\ name # <<>> /\ name[1] # "." /\ \A i \in 1..Len(name) : name[i] # "/"
                   /\ DOMAIN files' = DOMAIN files \cup {name}
                   /\ files'[name] = "new"
                   /\ \A n \in DOMAIN files : n # name => files'[n] = files[n]]_vars

\* a file with a path in its name replaced the file stored under its sanitized name
UploadOutcomesWitness ==
    /\ ev.op = "upload" /\ ev.status = 201
    /\ ev.stored # ev.filename
    /\ \E i \in 1..Len(ev.filename) : ev.filename[i] = "/"
    /\ Cardinality(DOMAIN files) = 2 /\ files[ev.stored] = "new"

====
